---------------------------- MODULE Spec2Model ----------------------------
(***************************************************************************)
(* A model of the PK agent proof of concept (poc/model.py, poc/agents.py,  *)
(* poc/agent_poc.py): the grid-search fitter, the subject grouping, the    *)
(* agent loop with its stop criteria, the concurrent paper-insight task    *)
(* and the quality gate.                                                   *)
(*                                                                         *)
(* Numbers.  The program computes in IEEE doubles.  Here a double is a     *)
(* record [inf, n]: a finite value n, or +infinity (what a double          *)
(* arithmetic overflow produces).  Concentrations are whole numbers or     *)
(* the value HUGE (1e200, a finite double whose square overflows);         *)
(* predictions and residuals are kept in hundredths (fixed point), and     *)
(* the grid values in thousandths.  All observations are taken at time 0,  *)
(* where exp(-k*0) = 1 and predict_conc needs no exponential.              *)
(***************************************************************************)
EXTENDS Integers, Sequences, FiniteSets, TLC

\* ------------------------------------------------------- program constants
MAX_ITERATIONS == 3
NO_IMPROVEMENT_STOP == 2
\* Number of grid points of each axis (logspace(..., 25)).
GRID_N == 25
\* _smoke_subset keeps the first 5 observations.
SMOKE_MAX == 5

\* ----------------------------------------------------------------- doubles
Fin(n) == [inf |-> FALSE, n |-> n]
INF == [inf |-> TRUE, n |-> 0]

\* a + b on doubles
fadd(a, b) == IF a.inf \/ b.inf THEN INF ELSE Fin(a.n + b.n)

\* a < b on doubles
flt(a, b) == ~a.inf /\ (b.inf \/ a.n < b.n)

\* Optional[...]: None, or a value
None == <<>>
Some(x) == <<x>>
IsNone(o) == o = <<>>
Val(o) == o[1]

\* ------------------------------------------------------------ observations
\* Row: subject_id, time, conc, dose_mg, tinf_h.  conc is a whole number or
\* HUGE (1e200).
HUGE == [huge |-> TRUE, c |-> 0]
Conc(c) == [huge |-> FALSE, c |-> c]

Row(s, c, d, t) == [subject_id |-> s, time |-> 0, conc |-> c, dose_mg |-> d, tinf_h |-> t]

\* The observations a data file may hold: two bolus doses (subjects A and
\* B), an infusion, and a row whose concentration is 1e200.
RowUniverse ==
    { Row("A", Conc(5), 10, 0), Row("B", Conc(2), 10, 0),
      Row("A", Conc(3), 10, 1), Row("B", HUGE, 10, 0) }

RECURSIVE SeqsUpTo(_, _)
SeqsUpTo(S, n) ==
    IF n = 0 THEN { <<>> }
    ELSE LET shorter == SeqsUpTo(S, n - 1)
         IN shorter \cup { Append(q, x) : q \in { r \in shorter : Len(r) = n - 1 }, x \in S }

\* -------------------------------------------------------------- model.py
\* logspace(0.1, 50.0, 25) and logspace(1.0, 300.0, 25), in thousandths.
cl_grid ==
    << 100, 130, 168, 217, 282, 365, 473, 613, 794, 1028, 1332, 1726, 2236,
       2897, 3753, 4862, 6300, 8162, 10574, 13699, 17748, 22993, 29789,
       38593, 50000 >>

v_grid ==
    << 1000, 1268, 1609, 2040, 2587, 3281, 4162, 5278, 6694, 8490, 10768,
       13657, 17321, 21967, 27860, 35335, 44814, 56837, 72084, 91423,
       115949, 147055, 186507, 236542, 300000 >>

\* predict_conc at time_h = 0, in hundredths; cl and v in thousandths.
\* Bolus (tinf_h <= 0): (dose/v) * exp(-k*0) = dose/v.
\* Infusion, time_h <= tinf_h: (r0/cl) * (1 - exp(-k*0)) = 0.
predict_conc(time_h, dose_mg, tinf_h, cl, v) ==
    IF cl <= 0 \/ v <= 0 THEN 0
    ELSE IF tinf_h <= 0 THEN (dose_mg * 100000) \div v
    ELSE 0

\* diff * diff of one row: overflows to +infinity for conc = 1e200
sq_err(r, cl, v) ==
    IF r.conc.huge THEN INF
    ELSE LET pred == predict_conc(r.time, r.dose_mg, r.tinf_h, cl, v)
             diff == r.conc.c * 100 - pred
         IN Fin(diff * diff)

RECURSIVE sse_from(_, _, _, _, _)
sse_from(rs, i, cl, v, err) ==
    IF i > Len(rs) THEN err
    ELSE sse_from(rs, i + 1, cl, v, fadd(err, sq_err(rs[i], cl, v)))

sse_for(rs, cl, v) == sse_from(rs, 1, cl, v, Fin(0))

\* A fit (sse, cl, v)
Fit(sse, cl, v) == [sse |-> sse, cl |-> cl, v |-> v]

\* the comparison of grid_search: a candidate replaces best when sse < best[0]
better(sse, best) == flt(sse, best.sse)

\* One pass of the inner loop body: "if sse < best[0]: best = (sse, cl, v)"
step(rs, cl, v, best) ==
    LET sse == sse_for(rs, cl, v)
    IN IF better(sse, best) THEN Fit(sse, cl, v) ELSE best

\* the inner loop of grid_search (for v in v_grid), from index j on; nb is
\* the value of best after the pass at j
RECURSIVE scan_v(_, _, _, _)
scan_v(rs, cl, j, best) ==
    IF j > GRID_N THEN best
    ELSE CHOOSE r \in { scan_v(rs, cl, j + 1, nb) : nb \in { step(rs, cl, v_grid[j], best) } } : TRUE

\* the outer loop of grid_search (for cl in cl_grid), from index i on
RECURSIVE scan_cl(_, _, _)
scan_cl(rs, i, best) ==
    IF i > GRID_N THEN best
    ELSE CHOOSE r \in { scan_cl(rs, i + 1, nb) : nb \in { scan_v(rs, cl_grid[i], 1, best) } } : TRUE

grid_search(rs) == scan_cl(rs, 1, Fit(INF, 0, 0))

\* (mutant) the observation is added in front of the list
add_row_front(lst, r) == << r >> \o lst

\* out.setdefault(r.subject_id, []).append(r), on the list of the subject
add_row(lst, r) == Append(lst, r)

\* group_by_subject: a dict, as its keys in insertion order and its lists
RECURSIVE group_from(_, _, _)
group_from(rs, i, out) ==
    IF i > Len(rs) THEN out
    ELSE LET r == rs[i]
             k == r.subject_id
         IN IF \E j \in 1..Len(out.keys) : out.keys[j] = k
            THEN group_from(rs, i + 1,
                     [out EXCEPT !.val = [out.val EXCEPT ![k] = add_row(@, r)]])
            ELSE group_from(rs, i + 1,
                     [keys |-> Append(out.keys, k),
                      val |-> [x \in DOMAIN out.val \cup {k} |->
                                  IF x = k THEN add_row(<<>>, r) ELSE out.val[x]]])

group_by_subject(rs) == group_from(rs, 1, [keys |-> <<>>, val |-> <<>>])

\* ------------------------------------------------------------- agents.py
\* sqrt(sse / max(n, 1)): kept as the fraction under the root, sqrt being
\* monotonic; +infinity when sse is
rmse_of(sse, n) ==
    IF sse.inf THEN [inf |-> TRUE, num |-> 0, den |-> 1]
    ELSE [inf |-> FALSE, num |-> sse.n, den |-> IF n > 1 THEN n ELSE 1]

\* a < b on two RMSE values
rlt(a, b) == ~a.inf /\ (b.inf \/ a.num * b.den < b.num * a.den)

\* rmse <= t for a threshold t given in whole concentration units
\* (residuals are in hundredths)
rle_threshold(a, t) == ~a.inf /\ t >= 0 /\ a.num <= (100 * t) * (100 * t) * a.den

\* AgentState(rows=rows, by_subject=by_subject), the other fields defaulted
AgentState(rs, by) ==
    [rows |-> rs, by_subject |-> by, pooled_fit |-> None, results |-> None,
     last_rmse |-> None, no_improve_count |-> 0, paper_insights |-> None]

\* sorted(state.by_subject.items()): the subject ids in ascending order
SubjectOrder == << "A", "B" >>
sorted_keys(by) == SelectSeq(SubjectOrder, LAMBDA k : k \in DOMAIN by.val)

\* one entry of agent_fit_individual's result list
fit_subject(subject_id, srows) ==
    LET f == grid_search(srows)
    IN [subject_id |-> subject_id, cl |-> f.cl, v |-> f.v,
        rmse |-> rmse_of(f.sse, Len(srows)), n_obs |-> Len(srows)]

agent_fit_individual(st) ==
    LET ks == sorted_keys(st.by_subject)
    IN [st EXCEPT !.results =
            Some([i \in 1..Len(ks) |-> fit_subject(ks[i], st.by_subject.val[ks[i]])])]

agent_fit_pooled(st) == [st EXCEPT !.pooled_fit = Some(grid_search(st.rows))]

\* agent_report produces the files unless "not state.pooled_fit or not
\* state.results" (None, or an empty result list)
report_written(st) ==
    ~IsNone(st.pooled_fit) /\ ~IsNone(st.results) /\ Len(Val(st.results)) > 0

\* (mutant) the early return of agent_read_paper is dropped
paper_guard_off(st) == TRUE

\* agent_read_paper up to the call of the collaborator: TRUE when it calls
\* extract_paper_insights / extract_paper_insights_local
paper_guard(st) == IsNone(st.paper_insights)

calls_extract(st, provider, api_key) ==
    /\ paper_guard(st)
    /\ \/ provider = "anthropic" /\ api_key # ""
       \/ provider = "local"

\* (mutant) the limit is tested with > instead of >=
limit_reached_late(it, max_iter) == it > max_iter

\* (mutant) a tie counts as an improvement: <= instead of <
improved_or_tie(st, pooled_rmse) ==
    IsNone(st.last_rmse) \/ ~rlt(Val(st.last_rmse), pooled_rmse)

\* (mutant) the threshold is tested with > instead of >=
exhausted_late(count, no_improve_stop) == count > no_improve_stop

\* should_stop, line by line
limit_reached(it, max_iter) == it >= max_iter

improved(st, pooled_rmse) ==
    IsNone(st.last_rmse) \/ rlt(pooled_rmse, Val(st.last_rmse))

exhausted(count, no_improve_stop) == count >= no_improve_stop

\* should_stop(state, iteration, max_iter, no_improve_stop): the value
\* returned and the state it leaves
should_stop(st, it, max_iter, no_improve_stop) ==
    IF limit_reached(it, max_iter) THEN [ret |-> TRUE, st |-> st]
    ELSE IF IsNone(st.pooled_fit) THEN [ret |-> FALSE, st |-> st]
    ELSE LET pooled_rmse == rmse_of(Val(st.pooled_fit).sse, Len(st.rows))
         IN IF improved(st, pooled_rmse)
            THEN [ret |-> FALSE,
                  st |-> [st EXCEPT !.last_rmse = Some(pooled_rmse),
                                    !.no_improve_count = 0]]
            ELSE [ret |-> exhausted(st.no_improve_count + 1, no_improve_stop),
                  st |-> [st EXCEPT !.no_improve_count = @ + 1]]

\* ----------------------------------------------------------- agent_poc.py
\* The environment variable GATE_MAX_RMSE: unset, blank, not a number, or a
\* number t.
GateUnset == [kind |-> "unset", t |-> 0]
GateBlank == [kind |-> "blank", t |-> 0]
GateText == [kind |-> "text", t |-> 0]
GateNum(t) == [kind |-> "num", t |-> t]

\* _gate_max_rmse: None when the stripped value is empty or float() raises
\* ValueError
gate_max_rmse(g) ==
    IF g.kind \in {"unset", "blank"} THEN None
    ELSE IF g.kind = "text" THEN None
    ELSE Some(g.t)

\* (mutant) the gate compares with < instead of <=
within_gate_strict(pooled_rmse, threshold) ==
    rle_threshold(pooled_rmse, threshold)
        /\ pooled_rmse.num # (100 * threshold) * (100 * threshold) * pooled_rmse.den

\* the comparison of _gate_passed
within_gate(pooled_rmse, threshold) == rle_threshold(pooled_rmse, threshold)

\* _gate_passed
gate_passed(st, g) ==
    LET threshold == gate_max_rmse(g)
    IN IF IsNone(threshold) THEN TRUE
       ELSE IF IsNone(st.pooled_fit) THEN FALSE
       ELSE within_gate(rmse_of(Val(st.pooled_fit).sse, Len(st.rows)), Val(threshold))

\* (mutant) the subject filter of _smoke_subset is dropped: the first rows
\* of the file are taken whatever their subject
smoke_subset_unfiltered(rs) ==
    SubSeq(rs, 1, IF Len(rs) < SMOKE_MAX THEN Len(rs) ELSE SMOKE_MAX)

\* _smoke_subset
smoke_subset(rs) ==
    IF Len(rs) = 0 THEN rs
    ELSE LET first_id == rs[1].subject_id
             same == SelectSeq(rs, LAMBDA r : r.subject_id = first_id)
         IN SubSeq(same, 1, IF Len(same) < SMOKE_MAX THEN Len(same) ELSE SMOKE_MAX)

\* ------------------------------------------------------------------ state
VARIABLES
    rows,           \* what read_rows returned (input of the function called)
    env,            \* the environment: PARALLEL_AGENTS, GATE_MAX_RMSE,
                    \* LLM_PROVIDER, ANTHROPIC_API_KEY
    state,          \* the AgentState
    iteration,      \* run_agent_loop's iteration
    pc,             \* where the main thread is
    paper,          \* where agent_read_paper is (the pool's task, or the
                    \* call of sequential mode)
    extract_calls,  \* how often the collaborator was called
    reports,        \* how often agent_report wrote its files
    ret             \* the last call of a function under test and its result

vars == << rows, env, state, iteration, pc, paper, extract_calls, reports, ret >>

NoCall == [fn |-> "none", arg |-> 0, before |-> 0, out |-> 0]

\* The rows of the data files the program is run on.
rA == Row("A", Conc(5), 10, 0)
rB == Row("B", Conc(2), 10, 0)
rI == Row("A", Conc(3), 10, 1)
rH == Row("B", HUGE, 10, 0)
DataFiles == { <<>>, <<rA>>, <<rB, rA, rI>>, <<rA, rH>> }

Providers == { "anthropic", "local", "other" }
ApiKeys == { "", "sk" }
GateEnvs == { GateUnset, GateText, GateNum(0), GateNum(2) }
\* what the collaborator does when called: returns the insights, returns an
\* error dict ({"error": "no_text_extracted"}), or raises
Outcomes == { "insights", "error", "raise" }

\* main(): the rows are read and grouped, the AgentState is built and
\* run_agent_loop is entered
Init ==
    /\ rows \in DataFiles
    /\ env \in [parallel : BOOLEAN, gate : GateEnvs, provider : Providers, api_key : ApiKeys]
    /\ state = AgentState(rows, group_by_subject(rows))
    /\ iteration = 0
    /\ pc = "top"
    /\ paper = "idle"
    /\ extract_calls = 0
    /\ reports = 0
    /\ ret = NoCall

\* while True: ...; in concurrent mode pool.submit(agent_read_paper, ...)
LoopTop ==
    /\ pc = "top"
    /\ pc' = "inspect"
    /\ paper' = IF env.parallel THEN "start" ELSE "idle"
    /\ UNCHANGED << rows, env, state, iteration, extract_calls, reports, ret >>

AgentInspect ==
    /\ pc = "inspect"
    /\ pc' = "fit_individual"
    /\ UNCHANGED << rows, env, state, iteration, paper, extract_calls, reports, ret >>

AgentFitIndividual ==
    /\ pc = "fit_individual"
    /\ state' = agent_fit_individual(state)
    /\ pc' = "fit_pooled"
    /\ UNCHANGED << rows, env, iteration, paper, extract_calls, reports, ret >>

AgentFitPooled ==
    /\ pc = "fit_pooled"
    /\ state' = agent_fit_pooled(state)
    /\ pc' = IF env.parallel THEN "join" ELSE "read_paper"
    /\ UNCHANGED << rows, env, iteration, paper, extract_calls, reports, ret >>

\* sequential mode: agent_read_paper(state, ...) is called by the main thread
ReadPaperCall ==
    /\ pc = "read_paper"
    /\ paper' = "start"
    /\ pc' = "in_paper"
    /\ UNCHANGED << rows, env, state, iteration, extract_calls, reports, ret >>

\* agent_read_paper up to the collaborator's call, or its return without one
PaperStart ==
    /\ paper = "start"
    /\ IF calls_extract(state, env.provider, env.api_key)
       THEN paper' = "calling" /\ extract_calls' = extract_calls + 1
       ELSE paper' = "done" /\ UNCHANGED extract_calls
    /\ UNCHANGED << rows, env, state, iteration, pc, reports, ret >>

\* the collaborator returns and state.paper_insights is assigned, or it raises
PaperFinish ==
    /\ paper = "calling"
    /\ \E o \in Outcomes :
         IF o = "raise"
         THEN paper' = "failed" /\ UNCHANGED state
         ELSE /\ paper' = "done"
              /\ state' = [state EXCEPT !.paper_insights = Some(o)]
    /\ UNCHANGED << rows, env, iteration, pc, extract_calls, reports, ret >>

\* sequential mode: agent_read_paper returns to the loop, or its exception
\* leaves run_agent_loop
ReadPaperReturn ==
    /\ pc = "in_paper"
    /\ paper \in {"done", "failed"}
    /\ pc' = IF paper = "failed" THEN "fault" ELSE "report"
    /\ paper' = "idle"
    /\ UNCHANGED << rows, env, state, iteration, extract_calls, reports, ret >>

\* (mutant) the loop goes on without waiting for the task
join_ready_early(p) == TRUE

\* paper_future.result() can return
join_ready(p) == p \in {"done", "failed"}

\* concurrent mode: paper_future.result() and the end of the with block;
\* result() raises again what the task raised
Join ==
    /\ pc = "join"
    /\ join_ready(paper)
    /\ pc' = IF paper = "failed" THEN "fault" ELSE "gate"
    /\ UNCHANGED << rows, env, state, iteration, paper, extract_calls, reports, ret >>

\* (mutant) the break after a failed gate is missing
GateNoBreak ==
    /\ pc = "gate"
    /\ pc' = "report"
    /\ UNCHANGED << rows, env, state, iteration, paper, extract_calls, reports, ret >>

\* if not _gate_passed(state): break
Gate ==
    /\ pc = "gate"
    /\ pc' = IF gate_passed(state, env.gate) THEN "report" ELSE "done"
    /\ UNCHANGED << rows, env, state, iteration, paper, extract_calls, reports, ret >>

AgentReport ==
    /\ pc = "report"
    /\ reports' = IF report_written(state) THEN reports + 1 ELSE reports
    /\ pc' = "stop"
    /\ UNCHANGED << rows, env, state, iteration, paper, extract_calls, ret >>

\* if should_stop(state, iteration, MAX_ITERATIONS, NO_IMPROVEMENT_STOP):
\*     break
\* iteration += 1
ShouldStop ==
    /\ pc = "stop"
    /\ LET r == should_stop(state, iteration, MAX_ITERATIONS, NO_IMPROVEMENT_STOP)
       IN /\ state' = r.st
          /\ IF r.ret
             THEN pc' = "done" /\ UNCHANGED iteration
             ELSE pc' = "top" /\ iteration' = iteration + 1
    /\ UNCHANGED << rows, env, paper, extract_calls, reports, ret >>

Next ==
    \/ LoopTop
    \/ AgentInspect
    \/ AgentFitIndividual
    \/ AgentFitPooled
    \/ ReadPaperCall
    \/ PaperStart
    \/ PaperFinish
    \/ ReadPaperReturn
    \/ Join
    \/ Gate
    \/ AgentReport
    \/ ShouldStop

Spec == Init /\ [][Next]_vars

\* ------------------------------------- the loop under any fitting results
\* run_agent_loop on a file without observations (the loop reads state.rows
\* through len() only, and agent_fit_individual has no subject to fit), with
\* agent_fit_pooled returning any fit: the fit of the file's rows
\* (state.rows never changes in the loop), which is what the program
\* computes, or one with a larger SSE.  The sequences of pooled RMSE values
\* the loop may see are then all the sequences over these values, the
\* constant one of the program among them.
LoopRows == << >>

LoopFit == grid_search(LoopRows)

LoopSse == { Fin(100), Fin(40000), INF }

pooled_fits == { LoopFit } \cup { Fit(x, cl_grid[1], v_grid[1]) : x \in LoopSse }

AgentFitPooledAny ==
    /\ pc = "fit_pooled"
    /\ \E f \in pooled_fits : state' = [state EXCEPT !.pooled_fit = Some(f)]
    /\ pc' = IF env.parallel THEN "join" ELSE "read_paper"
    /\ UNCHANGED << rows, env, iteration, paper, extract_calls, reports, ret >>

NextLoop ==
    \/ LoopTop
    \/ AgentInspect
    \/ AgentFitIndividual
    \/ AgentFitPooledAny
    \/ ReadPaperCall
    \/ PaperStart
    \/ PaperFinish
    \/ ReadPaperReturn
    \/ Join
    \/ Gate
    \/ AgentReport
    \/ ShouldStop

\* Every configuration of Init: sequential or concurrent, no threshold, one
\* that no other fit than an exact one passes or one that every finite fit
\* passes, a collaborator that is called or not.
InitLoop ==
    /\ rows = LoopRows
    /\ env \in [parallel : BOOLEAN, gate : GateEnvs, provider : Providers, api_key : ApiKeys]
    /\ state = AgentState(rows, group_by_subject(rows))
    /\ iteration = 0
    /\ pc = "top"
    /\ paper = "idle"
    /\ extract_calls = 0
    /\ reports = 0
    /\ ret = NoCall

\* The main thread runs its next statement, the worker thread of the pool is
\* scheduled, and every call that was made returns or raises.
SpecLoop == InitLoop /\ [][NextLoop]_vars /\ WF_vars(NextLoop)

\* ------------------------------------------------- the stop criteria alone
\* should_stop and _gate_passed called on any AgentState, the way line 66 of
\* agent_poc.py calls should_stop: iteration goes up by one while it
\* returns False.
MaxCount == 2

StopRows == { <<>>, <<rA>>, <<rA, rB>> }
StopSse == { Fin(0), Fin(100), Fin(40000), INF }

StopStates ==
    { [AgentState(rs, group_by_subject(rs)) EXCEPT
          !.pooled_fit = pf, !.last_rmse = lr, !.no_improve_count = c] :
        rs \in StopRows,
        pf \in {None} \cup { Some(Fit(x, cl_grid[1], v_grid[1])) : x \in StopSse },
        lr \in {None} \cup { Some(rmse_of(x, 1)) : x \in StopSse },
        c \in 0..MaxCount }

InitStop ==
    /\ state \in StopStates
    /\ rows = state.rows
    /\ env \in [parallel : {TRUE}, gate : GateEnvs \cup {GateBlank},
                provider : {"other"}, api_key : {""}]
    /\ iteration \in 0..(MAX_ITERATIONS + 1)
    /\ pc = "unit"
    /\ paper = "idle"
    /\ extract_calls = 0
    /\ reports = 0
    /\ ret = NoCall

UnitShouldStop ==
    /\ pc = "unit"
    /\ LET r == should_stop(state, iteration, MAX_ITERATIONS, NO_IMPROVEMENT_STOP)
       IN /\ state' = r.st
          /\ ret' = [fn |-> "should_stop", arg |-> iteration, before |-> state, out |-> r.ret]
          /\ IF r.ret
             THEN pc' = "unit_done" /\ UNCHANGED iteration
             ELSE pc' = "unit" /\ iteration' = iteration + 1
    /\ UNCHANGED << rows, env, paper, extract_calls, reports >>

UnitGatePassed ==
    /\ pc = "unit"
    /\ ret' = [fn |-> "_gate_passed", arg |-> env.gate, before |-> state,
               out |-> gate_passed(state, env.gate)]
    /\ UNCHANGED << rows, env, state, iteration, pc, paper, extract_calls, reports >>

NextStop == UnitShouldStop \/ UnitGatePassed

SpecStop == InitStop /\ [][NextStop]_vars

\* --------------------------------------------- the functions of model.py
\* grid_search and group_by_subject called on any observation sequence.
MaxObs == 3

InitModel ==
    /\ rows \in SeqsUpTo(RowUniverse, MaxObs)
    /\ env = [parallel |-> FALSE, gate |-> GateUnset, provider |-> "other", api_key |-> ""]
    /\ state = AgentState(<<>>, group_by_subject(<<>>))
    /\ iteration = 0
    /\ pc = "call"
    /\ paper = "idle"
    /\ extract_calls = 0
    /\ reports = 0
    /\ ret = NoCall

CallGridSearch ==
    /\ pc = "call"
    /\ ret' = [fn |-> "grid_search", arg |-> rows, before |-> 0, out |-> grid_search(rows)]
    /\ UNCHANGED << rows, env, state, iteration, pc, paper, extract_calls, reports >>

CallGroupBySubject ==
    /\ pc = "call"
    /\ ret' = [fn |-> "group_by_subject", arg |-> rows, before |-> 0,
               out |-> group_by_subject(rows)]
    /\ UNCHANGED << rows, env, state, iteration, pc, paper, extract_calls, reports >>

NextModel == CallGridSearch \/ CallGroupBySubject

SpecModel == InitModel /\ [][NextModel]_vars

\* ------------------------------------------------------- _smoke_subset
\* _smoke_subset called on any row sequence long enough for one subject to
\* have more rows than the slice keeps.
MaxSmokeRows == 7

SmokeUniverse == { rA, rI, rB }

InitSmoke ==
    /\ rows \in SeqsUpTo(SmokeUniverse, MaxSmokeRows)
    /\ env = [parallel |-> FALSE, gate |-> GateUnset, provider |-> "other", api_key |-> ""]
    /\ state = AgentState(<<>>, group_by_subject(<<>>))
    /\ iteration = 0
    /\ pc = "call"
    /\ paper = "idle"
    /\ extract_calls = 0
    /\ reports = 0
    /\ ret = NoCall

CallSmokeSubset ==
    /\ pc = "call"
    /\ ret' = [fn |-> "_smoke_subset", arg |-> rows, before |-> 0, out |-> smoke_subset(rows)]
    /\ UNCHANGED << rows, env, state, iteration, pc, paper, extract_calls, reports >>

NextSmoke == CallSmokeSubset

SpecSmoke == InitSmoke /\ [][NextSmoke]_vars

\* ----------------------------------------------------------------- claims
\* The pooled RMSE should_stop computes in the current state.
PooledRmse(st) == rmse_of(Val(st.pooled_fit).sse, Len(st.rows))

\* C1: in every call of should_stop made by run_agent_loop, no_improve_count
\* becomes 0 exactly when there is no recorded best yet or the new pooled
\* RMSE is strictly below it; in every other call, ties included, it goes up
\* by one.
C1_NoImproveCount ==
    [][ pc = "stop" =>
          /\ ~IsNone(state.pooled_fit)
          /\ LET strictly ==
                     \/ IsNone(state.last_rmse)
                     \/ rlt(PooledRmse(state), Val(state.last_rmse))
             IN /\ (state'.no_improve_count = 0) <=> strictly
                /\ ~strictly => state'.no_improve_count = state.no_improve_count + 1
      ]_vars

\* A call on a tie has happened: the second call of a run found the RMSE of
\* the first again and counted it.
C1_Witness ==
    /\ pc = "top"
    /\ iteration = 2
    /\ state.no_improve_count = 1
    /\ ~IsNone(state.last_rmse)
    /\ PooledRmse(state) = Val(state.last_rmse)

\* C2: the loop ends after an iteration exactly when the iteration limit is
\* reached, or the no-improvement counter has reached its threshold, or the
\* mode is concurrent and the gate failed; a failed gate ends it at once in
\* concurrent mode, and the gate is not looked at in sequential mode.
C2_StopDecision ==
    [][ /\ pc = "stop" =>
              (pc' = "done" <=>
                  \/ iteration >= MAX_ITERATIONS
                  \/ state'.no_improve_count >= NO_IMPROVEMENT_STOP
                  \/ env.parallel /\ ~gate_passed(state, env.gate))
        /\ pc = "gate" => env.parallel /\ (pc' = "done" <=> ~gate_passed(state, env.gate))
        /\ pc' = "done" => pc \in {"stop", "gate", "done"}
        /\ ~env.parallel => pc' # "gate"
      ]_vars

\* The gate has ended a concurrent run whose stop predicate had not fired.
C2_Witness ==
    /\ pc = "done"
    /\ env.parallel
    /\ ~gate_passed(state, env.gate)
    /\ iteration = 0
    /\ state.no_improve_count < NO_IMPROVEMENT_STOP

\* C3: a failure of the paper-insight collaborator is never fatal: the
\* loop never ends through the exception it raised.
C3_PaperFailureNotFatal == pc # "fault"

\* C4: in concurrent mode the paper task writes only paper_insights, the
\* fitting steps write only results and pooled_fit, and the gate, the report
\* and the stop predicate run only when both tasks of the iteration are over.
C4_Inv ==
    env.parallel /\ pc \in {"gate", "report", "stop"} =>
        /\ paper = "done"
        /\ ~IsNone(state.results)
        /\ ~IsNone(state.pooled_fit)

C4_Step ==
    env.parallel =>
        /\ paper' # paper /\ paper \in {"start", "calling"} =>
              state' = [state EXCEPT !.paper_insights = state'.paper_insights]
        /\ pc' # pc /\ pc \in {"inspect", "fit_individual", "fit_pooled"} =>
              state' = [state EXCEPT !.results = state'.results,
                                     !.pooled_fit = state'.pooled_fit]

\* C4, as one formula: the join holds in every state, and every step of a
\* task writes only its own fields.
C4_NoSharedWrite == [](C4_Inv) /\ [][C4_Step]_vars

\* The fitting steps are over while the paper task is still in its call.
C4_Witness ==
    /\ env.parallel
    /\ pc = "join"
    /\ paper = "calling"
    /\ ~IsNone(state.pooled_fit)

\* C6: with the same pooled RMSE in every iteration and a threshold of 2,
\* the counter is 0, 1, 2 after the successive calls, and should_stop returns
\* True first in the call that brings it to 2.
C6_TieSequence ==
    [][ pc = "stop" =>
          /\ state'.no_improve_count = iteration
          /\ state'.last_rmse = Some(PooledRmse(state))
          /\ pc' = "done" <=> state'.no_improve_count = NO_IMPROVEMENT_STOP
      ]_vars

\* The third call has brought the counter to 2 and ended the loop.
C6_Witness ==
    /\ pc = "done"
    /\ iteration = 2
    /\ state.no_improve_count = NO_IMPROVEMENT_STOP
    /\ gate_passed(state, env.gate)

\* C8: once paper_insights is populated, a call of agent_read_paper changes
\* nothing of the AgentState and does not call the collaborator again.
C8_Step ==
    ~IsNone(state.paper_insights) =>
        /\ state'.paper_insights = state.paper_insights
        /\ extract_calls' = extract_calls
        /\ paper = "start" /\ paper' # paper =>
              state' = state /\ paper' = "done"

\* C8, over every step of a run.
C8_ReadPaperIdempotent == [][C8_Step]_vars

\* A call of agent_read_paper in a later iteration has returned, with the
\* insights of an earlier one in place.
C8_Witness ==
    /\ iteration >= 1
    /\ ~IsNone(state.paper_insights)
    /\ extract_calls = 1
    /\ paper = "done"
    /\ pc \in {"join", "in_paper"}

\* C5: should_stop returns True whenever the iteration index it is given is
\* >= max_iterations, whether or not the pooled RMSE improved, and leaves the
\* state as it was; driven as the loop drives it with max_iterations = 3, no
\* call is followed by an iteration of index above 3.
C5_IterationLimit ==
    ret.fn = "should_stop" =>
        /\ ret.arg >= MAX_ITERATIONS => ret.out /\ state = ret.before /\ pc = "unit_done"
        /\ pc = "unit" => iteration <= MAX_ITERATIONS

\* should_stop was called at the limit with a pooled RMSE strictly below the
\* recorded best, and returned True.
C5_Witness ==
    /\ ret.fn = "should_stop"
    /\ ret.arg = MAX_ITERATIONS
    /\ ret.out
    /\ ~IsNone(ret.before.pooled_fit)
    /\ ~IsNone(ret.before.last_rmse)
    /\ rlt(PooledRmse(ret.before), Val(ret.before.last_rmse))

\* C7: with no threshold configured _gate_passed returns True whatever the
\* pooled RMSE; with a threshold t it returns False when there is no pooled
\* fit, and otherwise True exactly when sqrt(sse / max(n_obs, 1)) <= t, that
\* is when t >= 0 and sse <= t * t * max(n_obs, 1) (sse in hundredths squared).
C7_QualityGate ==
    ret.fn = "_gate_passed" =>
        LET st == ret.before
            g == ret.arg
            n == IF Len(st.rows) > 1 THEN Len(st.rows) ELSE 1
        IN /\ g.kind # "num" => ret.out
           /\ g.kind = "num" /\ IsNone(st.pooled_fit) => ~ret.out
           /\ g.kind = "num" /\ ~IsNone(st.pooled_fit) =>
                 (ret.out <=>
                     /\ ~Val(st.pooled_fit).sse.inf
                     /\ g.t >= 0
                     /\ Val(st.pooled_fit).sse.n <= 10000 * g.t * g.t * n)

\* The gate passed a pooled RMSE equal to the threshold: sse = 4.0 over one
\* observation, threshold 2.
C7_Witness ==
    /\ ret.fn = "_gate_passed"
    /\ ret.arg = GateNum(2)
    /\ Len(ret.before.rows) = 1
    /\ ret.before.pooled_fit = Some(Fit(Fin(40000), cl_grid[1], v_grid[1]))
    /\ ret.out

\* The grid pairs in iteration order: position k (0-based) is the pair
\* (cl_grid[k \div 25], v_grid[k % 25]).
GridPos == 0..(GRID_N * GRID_N - 1)
GridCl(k) == cl_grid[(k \div GRID_N) + 1]
GridV(k) == v_grid[(k % GRID_N) + 1]

\* a <= b on doubles
fle(a, b) == b.inf \/ (~a.inf /\ a.n <= b.n)

\* C9: grid_search returns a grid pair whose SSE is <= that of every pair of
\* the grid, the first such pair in iteration order; for the empty sequence
\* it returns (0.0, 0.1, 1.0).
C9_GridSearchMinimum ==
    ret.fn = "grid_search" =>
        /\ \E k \in GridPos :
              /\ ret.out = Fit(sse_for(ret.arg, GridCl(k), GridV(k)), GridCl(k), GridV(k))
              /\ \A m \in GridPos : fle(ret.out.sse, sse_for(ret.arg, GridCl(m), GridV(m)))
              /\ \A m \in 0..(k - 1) : sse_for(ret.arg, GridCl(m), GridV(m)) # ret.out.sse
        /\ ret.arg = <<>> => ret.out = Fit(Fin(0), 100, 1000)

\* The concatenation of the groups of a dict, in the order of its keys.
RECURSIVE Flatten(_, _)
Flatten(by, i) ==
    IF i > Len(by.keys) THEN <<>> ELSE by.val[by.keys[i]] \o Flatten(by, i + 1)

\* C10: group_by_subject partitions the observations: the keys are the
\* subject ids that occur, each once; the group of a subject is the
\* subsequence of its observations, in input order, so that none is lost or
\* duplicated; and grouping the flattened groups gives the same dict.
C10_GroupPartition ==
    ret.fn = "group_by_subject" =>
        LET by == ret.out
            obs == ret.arg
            ids == { obs[i].subject_id : i \in 1..Len(obs) }
        IN /\ DOMAIN by.val = ids
           /\ { by.keys[i] : i \in 1..Len(by.keys) } = ids
           /\ Len(by.keys) = Cardinality(ids)
           /\ \A k \in ids :
                 by.val[k] = SelectSeq(obs, LAMBDA r : r.subject_id = k)
           /\ Len(Flatten(by, 1)) = Len(obs)
           /\ group_by_subject(Flatten(by, 1)) = by

\* Three observations were grouped, the second of another subject than the
\* first and the third.
C10_Witness ==
    /\ ret.fn = "group_by_subject"
    /\ Len(ret.arg) = 3
    /\ ret.arg[1].subject_id = ret.arg[3].subject_id
    /\ ret.arg[1].subject_id # ret.arg[2].subject_id
    /\ ret.arg[1] # ret.arg[3]
    /\ Len(ret.out.val[ret.arg[1].subject_id]) = 2


\* out[i..] occurs in rs[j..] in the same order (out is a subsequence of rs).
RECURSIVE InOrder(_, _, _, _)
InOrder(out, rs, i, j) ==
    IF i > Len(out) THEN TRUE
    ELSE IF j > Len(rs) THEN FALSE
    ELSE IF out[i] = rs[j] THEN InOrder(out, rs, i + 1, j + 1)
    ELSE InOrder(out, rs, i, j + 1)

\* C11: for every non-empty row sequence _smoke_subset returns a non-empty
\* sequence of at most 5 rows, all of them with the subject_id of the first
\* input row and in input order; for the empty sequence it returns the
\* empty sequence.
C11_SmokeSubset ==
    ret.fn = "_smoke_subset" =>
        IF Len(ret.arg) = 0 THEN ret.out = <<>>
        ELSE /\ Len(ret.out) > 0
             /\ Len(ret.out) <= 5
             /\ \A i \in 1..Len(ret.out) : ret.out[i].subject_id = ret.arg[1].subject_id
             /\ InOrder(ret.out, ret.arg, 1, 1)

\* A file whose first subject has more than 5 rows, two different ones among
\* them, with a row of another subject in between: 5 rows are returned.
C11_Witness ==
    /\ ret.fn = "_smoke_subset"
    /\ Len(ret.arg) >= 7
    /\ ret.arg[1] = rA
    /\ ret.arg[2] = rB
    /\ ret.arg[3] = rI
    /\ Len(SelectSeq(ret.arg, LAMBDA r : r.subject_id = "A")) > 5
    /\ Len(ret.out) = 5
    /\ ret.out[2] = rI


\* The loop has been left: by a break, or by the exception of a call.
LoopLeft == pc \in { "done", "fault" }

\* C12: run_agent_loop terminates when its agents and the external
\* collaborator return: in every configuration and for every sequence of
\* pooled RMSE values, the loop is left, and it is left by a break unless a
\* call has raised; the fitting pipeline is never executed more than
\* max_iterations + 1 times (the iteration index stays in
\* 0..max_iterations); and once the loop is left nothing more runs.
C12_Termination ==
    /\ <>LoopLeft
    /\ [][pc' = "fault" => paper = "failed"]_vars
    /\ [](iteration \in 0..MAX_ITERATIONS)
    /\ [][~LoopLeft]_vars

\* A concurrent run with a threshold, in which the collaborator was called
\* and the pooled RMSE still improved at iteration max_iterations - 1: the
\* loop is left by the iteration limit, after max_iterations + 1 executions
\* of the pipeline.
C12_Witness ==
    /\ pc = "done"
    /\ iteration = MAX_ITERATIONS
    /\ state.no_improve_count = 0
    /\ state.last_rmse = Some(rmse_of(Fin(100), 0))
    /\ state.pooled_fit = Some(LoopFit)
    /\ extract_calls = 1
    /\ env.parallel
    /\ env.gate = GateNum(2)

=============================================================================
